---- MODULE Spec2Model ----
(***************************************************************************)
(* ETL job orchestration and analysis execution of the FRED dashboard      *)
(* server: the in-memory store (server/storage.ts), the ETL routes and     *)
(* runETLPipeline (server/api/etl.ts) and the Python bridge                *)
(* runPythonScript.                                                        *)
(*                                                                         *)
(* Every store method is "async": its body runs synchronously when it is   *)
(* called, and the caller's "await" then suspends the caller.  Each await  *)
(* is a point where the continuation of another request or job may run,    *)
(* so each stretch of code between two awaits is one action.               *)
(***************************************************************************)
EXTENDS Integers, Sequences, FiniteSets, TLC

(* ----------------------------- bounds ---------------------------------- *)
\* number of POST /etl/run requests that are accepted
MaxRuns == 2
\* number of POST /etl/schedule requests that are accepted
MaxSchedules == 1
\* number of clock ticks after construction
MaxTicks == 1
\* number of clock ticks while jobs run and the status is read
MaxLateTicks == 2
\* number of records of one kind that direct calls of the store create
MaxCreates == 2
\* number of values created before getValues is called
MaxValues == 3
\* number of jobs created before the jobs are listed
MaxJobs == 3
\* number of analysis requests that reach the bridge
MaxRequests == 2

(* ------------------------- null and time values ------------------------ *)
\* null of a Date field (endTime: null)
NoTime == -1
\* null of recordsProcessed
NoCount == -1
\* result.data absent from the output
NoData == -1
\* NaN, what Date.parse returns for a string that is no date
NaN == -2
\* the time at which the MemStorage constructor runs
T0 == 4

NoError == "null"
NoMeta == [kind |-> "null"]

(* ------------------------------ inputs --------------------------------- *)
\* a field that is absent from the request body
Undefined == "undefined"
\* series identifiers; GDP has a seeded Indicator, DGS10 has none
Symbols == {"GDP", "DGS10"}
\* series_id of a POST /etl/run body
SeriesArgs == Symbols \cup {Undefined, ""}
\* series_id of a POST /etl/schedule body
ScheduleSeriesArgs == {Undefined, "GDP"}
\* start_date and end_date of a request body
DateRanges == {<<"2020-01-01", Undefined>>}
\* task of a POST /etl/schedule body
TaskArgs == {Undefined, "Nightly"}
\* scheduledTime of a POST /etl/schedule body
TimeArgs == {Undefined, "not-a-date", "t6"}

\* !x of JavaScript for a string or undefined
Falsy(x) == x = Undefined \/ x = ""

\* Date.parse, line 436: a number for a date string, NaN otherwise
DateParse(str) ==
  CASE str = "t6" -> 6
    [] OTHER -> NaN

\* `${series_id} Dataset Update`, line 346
TaskLabel(series) ==
  CASE series = "GDP" -> "GDP Dataset Update"
    [] series = "DGS10" -> "DGS10 Dataset Update"
    [] OTHER -> "Dataset Update"

(* --------------------------- bridge outputs ---------------------------- *)
\* Parsed JSON values the ETL script can print.  isNull: the document is the
\* JSON value null; dataLen: length of .data (NoData when absent); meta:
\* "none" (no .metadata), "empty" ({}), "full" (all fields present).
JsonValue(isNull, dataLen, meta) ==
  [isNull |-> isNull, dataLen |-> dataLen, meta |-> meta]

JsonNull == JsonValue(TRUE, NoData, "none")

\* null, {}, {"data": [], "metadata": {}} and
\* {"data": [.., ..], "metadata": {"name": .., ..}}
EtlOutputs ==
  {JsonNull, JsonValue(FALSE, NoData, "none"), JsonValue(FALSE, 0, "empty"),
   JsonValue(FALSE, 2, "full")}

\* What the process wrote to stdout: unparsable text, or the text of a value
Stdouts == {[json |-> FALSE, value |-> JsonNull]} \cup
           {[json |-> TRUE, value |-> v] : v \in EtlOutputs}

\* JSON.parse(output), line 291: the value, or a SyntaxError
JSONParse(out) ==
  IF out.json THEN [ok |-> TRUE, value |-> out.value]
  ELSE [ok |-> FALSE, value |-> JsonNull]

\* result.metadata.<field> || fallback, lines 407-410
MetaField(result, value, fallback) ==
  IF result.meta = "full" THEN value ELSE fallback

VARIABLES
  indicators, indicatorCurrentId,
  values, valueCurrentId,
  etlJobs, etlJobCurrentId,
  analysisResults, analysisResultCurrentId,
  now,        \* the clock read by new Date()
  pipe,       \* job id -> position and locals of its POST /run + runETLPipeline
  issued,     \* entity kind -> identifiers returned by create, in call order
  response,   \* the HTTP response sent by the step just taken, if any
  unhandled,  \* an error was thrown outside every try/catch and promise
  reqs,       \* the analysis requests, in order of arrival: position and locals
  heap        \* the objects behind the records, where SnapshotSpec follows them

vars == <<indicators, indicatorCurrentId, values, valueCurrentId,
          etlJobs, etlJobCurrentId, analysisResults, analysisResultCurrentId,
          now, pipe, issued, response, unhandled, reqs, heap>>

storeVars == <<indicators, indicatorCurrentId, values, valueCurrentId,
               etlJobs, etlJobCurrentId, analysisResults,
               analysisResultCurrentId, issued>>

(* ------------------------------ the store ------------------------------ *)
\* { ...insertX, id } stored under id = counter++ : lines 183-188, 253-258
Put(map, id, rec) == [i \in DOMAIN map \cup {id} |-> IF i = id THEN rec ELSE map[i]]

MergeClobber(rec, update) ==
  [f \in DOMAIN rec |-> IF f \in DOMAIN update THEN update[f]
                        ELSE IF f = "task" THEN "" ELSE rec[f]]

\* { ...record, ...update } : the fields of update replace those of record
Merge(rec, update) ==
  [f \in DOMAIN rec |-> IF f \in DOMAIN update THEN update[f] ELSE rec[f]]

\* getIndicatorBySymbol: the first indicator in insertion order with the
\* symbol, or undefined (0)
getIndicatorBySymbol(inds, symbol) ==
  LET hits == {i \in DOMAIN inds : inds[i].symbol = symbol}
  IN IF hits = {} THEN 0 ELSE CHOOSE i \in hits : \A k \in hits : i <= k

NextIdBroken(counter) == counter

\* counter++ : the counter after an identifier was taken
NextId(counter) == counter + 1

Issue(kind, id) == [issued EXCEPT ![kind] = Append(@, id)]

Indicator(symbol, name, description, frequency, units, source, lastUpdated) ==
  [symbol |-> symbol, name |-> name, description |-> description,
   frequency |-> frequency, units |-> units, source |-> source,
   lastUpdated |-> lastUpdated]

EtlJob(task, status, startTime, endTime, recordsProcessed, error, metadata) ==
  [task |-> task, status |-> status, startTime |-> startTime,
   endTime |-> endTime, recordsProcessed |-> recordsProcessed,
   error |-> error, metadata |-> metadata]

RequestMeta(series, startDate, endDate) ==
  [kind |-> "request", series_id |-> series, start_date |-> startDate,
   end_date |-> endDate]

ResultMeta(result) == [kind |-> "result", result |-> result]

\* createIndicator as a state change
createIndicator(rec) ==
  /\ indicators' = Put(indicators, indicatorCurrentId, rec)
  /\ indicatorCurrentId' = NextId(indicatorCurrentId)
  /\ issued' = Issue("indicator", indicatorCurrentId)

updateIndicatorRenames(id, update) ==
  /\ indicators' = IF id \in DOMAIN indicators
                   THEN [indicators EXCEPT ![id] =
                           Merge(@, [lastUpdated |-> update.lastUpdated,
                                     name |-> ""])]
                   ELSE indicators
  /\ UNCHANGED <<indicatorCurrentId, issued>>

\* updateIndicator: undefined (no change) for an unknown id
updateIndicator(id, update) ==
  /\ indicators' = IF id \in DOMAIN indicators
                   THEN [indicators EXCEPT ![id] = Merge(@, update)]
                   ELSE indicators
  /\ UNCHANGED <<indicatorCurrentId, issued>>

\* createEtlJob as a state change
createEtlJob(rec) ==
  /\ etlJobs' = Put(etlJobs, etlJobCurrentId, rec)
  /\ etlJobCurrentId' = NextId(etlJobCurrentId)
  /\ issued' = Issue("etlJob", etlJobCurrentId)

updateEtlJobNewest(id, update) ==
  /\ etlJobs' = IF id \in DOMAIN etlJobs
                THEN [etlJobs EXCEPT ![etlJobCurrentId - 1] = Merge(@, update)]
                ELSE etlJobs
  /\ UNCHANGED etlJobCurrentId

\* updateEtlJob: undefined (no change) for an unknown id
updateEtlJob(id, update) ==
  /\ etlJobs' = IF id \in DOMAIN etlJobs
                THEN [etlJobs EXCEPT ![id] = Merge(@, update)]
                ELSE etlJobs
  /\ UNCHANGED etlJobCurrentId

(* ------------------------ construction (seeds) ------------------------- *)
\* today 16:00 and 17:00 relative to the start of the server
SeedSchedules == {<<0, 1>>, <<7, 8>>}

SeedIndicators ==
  <<Indicator("GDP", "Gross Domestic Product", "d", "quarterly", "billions_usd", "FRED", T0),
    Indicator("UNRATE", "Unemployment Rate", "d", "monthly", "percent", "FRED", T0),
    Indicator("CPIAUCSL", "Consumer Price Index", "d", "monthly", "index", "FRED", T0)>>

SeedJobs(h16, h17) ==
  <<EtlJob(TaskLabel("GDP"), "completed", T0 - 2, T0, 125, NoError, NoMeta),
    EtlJob("CPI Dataset Update", "completed", T0 - 1, T0, 87, NoError, NoMeta),
    EtlJob("Unemployment Data", "in_progress", T0, NoTime, NoCount, NoError, NoMeta),
    EtlJob("S&P 500 Daily Update", "scheduled", h16, NoTime, NoCount, NoError, NoMeta),
    EtlJob("Treasury Yield Update", "scheduled", h17, NoTime, NoCount, NoError, NoMeta)>>

\* the objects the constructor allocates, lines 54-148: one per seeded
\* indicator, then one per seeded job; objects: the objects by address, in
\* order of allocation; indicators, etlJobs, values, analysisResults: the
\* address each Map holds under each key; held: the array a listing returned
\* to its caller, as the addresses of its elements, with a copy of what the
\* elements held at the time of the call
NoHeld == [op |-> "none", array |-> <<>>, copy |-> <<>>]

SeedHeap(jobs) ==
  [objects |-> SeedIndicators \o jobs,
   indicators |-> [i \in DOMAIN SeedIndicators |-> i],
   etlJobs |-> [j \in DOMAIN jobs |-> Len(SeedIndicators) + j],
   values |-> <<>>,
   analysisResults |-> <<>>,
   held |-> NoHeld]

NoResponse == [route |-> "none", code |-> 0, job_id |-> 0]

Init ==
  /\ indicators = SeedIndicators
  /\ indicatorCurrentId = 4
  /\ values = <<>>
  /\ valueCurrentId = 1
  /\ \E s \in SeedSchedules : etlJobs = SeedJobs(s[1], s[2])
  /\ etlJobCurrentId = 6
  /\ analysisResults = <<>>
  /\ analysisResultCurrentId = 1
  /\ now = T0
  /\ pipe = <<>>
  /\ issued = [kind \in {"indicator", "value", "etlJob", "analysisResult"} |->
                 CASE kind = "indicator" -> <<1, 2, 3>>
                   [] kind = "etlJob" -> <<1, 2, 3, 4, 5>>
                   [] OTHER -> <<>>]
  /\ response = NoResponse
  /\ unhandled = FALSE
  /\ reqs = <<>>
  /\ heap = SeedHeap(etlJobs)

(* ------------------------------ the clock ------------------------------ *)
\* time passes, at most maxTicks times
Advance(maxTicks) ==
  /\ now < T0 + maxTicks
  /\ now' = now + 1
  /\ response' = NoResponse
  /\ UNCHANGED <<storeVars, pipe, unhandled, heap, reqs>>

Tick == Advance(MaxTicks)

(* ------------------------- POST /etl/run ------------------------------- *)
Response(route, code, jobId) ==
  [route |-> route, code |-> code, job_id |-> jobId]

Pipe(pc, series, startDate, endDate) ==
  [pc |-> pc, seriesId |-> series, startDate |-> startDate, endDate |-> endDate,
   bridge |-> "pending", result |-> JsonNull, error |-> NoError, existing |-> 0]

\* lines 335-342: the request is refused when series_id is falsy
RunReject(series) ==
  /\ Falsy(series)
  /\ response' = Response("run", 400, 0)
  /\ UNCHANGED <<storeVars, now, pipe, unhandled, heap, reqs>>

RunCreateScheduled(series, startDate, endDate) ==
  /\ ~Falsy(series)
  /\ Cardinality(DOMAIN pipe) < MaxRuns
  /\ createEtlJob(EtlJob(TaskLabel(series), "scheduled", now, NoTime, NoCount,
                         NoError, RequestMeta(series, startDate, endDate)))
  /\ pipe' = Put(pipe, etlJobCurrentId, Pipe("created", series, startDate, endDate))
  /\ response' = NoResponse
  /\ UNCHANGED <<indicators, indicatorCurrentId, values, valueCurrentId,
                 analysisResults, analysisResultCurrentId, now, unhandled, heap, reqs>>

\* lines 344-353: the job record is created; the handler awaits the store
RunCreate(series, startDate, endDate) ==
  /\ ~Falsy(series)
  /\ Cardinality(DOMAIN pipe) < MaxRuns
  /\ createEtlJob(EtlJob(TaskLabel(series), "in_progress", now, NoTime, NoCount,
                         NoError, RequestMeta(series, startDate, endDate)))
  /\ pipe' = Put(pipe, etlJobCurrentId, Pipe("created", series, startDate, endDate))
  /\ response' = NoResponse
  /\ UNCHANGED <<indicators, indicatorCurrentId, values, valueCurrentId,
                 analysisResults, analysisResultCurrentId, now, unhandled, heap, reqs>>

\* POST /etl/run up to its first await
RunPost(series, startDate, endDate) ==
  \/ RunReject(series)
  \/ RunCreate(series, startDate, endDate)

\* runPythonScript up to the promise it returns, lines 266-273: the promise
\* is rejected at once when the script file is missing, otherwise the
\* process is spawned
BridgeStart(p, scriptExists) ==
  IF scriptExists
  THEN [p EXCEPT !.pc = "running"]
  ELSE [p EXCEPT !.pc = "rejected", !.bridge = "failed",
                 !.error = "Python script not found"]

\* lines 355-362: runETLPipeline runs up to its await of the bridge, then the
\* response is sent
RunStart(j) ==
  /\ j \in DOMAIN pipe
  /\ pipe[j].pc = "created"
  /\ \E scriptExists \in BOOLEAN :
       pipe' = [pipe EXCEPT ![j] = BridgeStart(@, scriptExists)]
  /\ response' = Response("run", 200, j)
  /\ UNCHANGED <<storeVars, now, unhandled, heap, reqs>>

(* ------------------------- the child process --------------------------- *)
\* the "close" handler, lines 285-296
BridgeClose(p, code, out) ==
  IF code # 0
  THEN [p EXCEPT !.pc = "rejected", !.bridge = "failed",
                 !.error = "Python script exited with code"]
  ELSE IF JSONParse(out).ok
       THEN [p EXCEPT !.pc = "resolved", !.bridge = "ok",
                      !.result = JSONParse(out).value]
       ELSE [p EXCEPT !.pc = "rejected", !.bridge = "failed",
                      !.error = "Failed to parse Python script output"]

ProcClose(j) ==
  /\ j \in DOMAIN pipe
  /\ pipe[j].pc = "running"
  /\ \E code \in {0, 1}, out \in Stdouts :
       pipe' = [pipe EXCEPT ![j] = BridgeClose(@, code, out)]
  /\ response' = NoResponse
  /\ UNCHANGED <<storeVars, now, unhandled, heap, reqs>>

\* spawn cannot start the interpreter: the child emits "error", for which
\* lines 273-296 register no listener, so the event is thrown as an
\* uncaught exception; onexit is left before "close" is emitted, so the
\* promise never settles
ProcSpawnError(j) ==
  /\ j \in DOMAIN pipe
  /\ pipe[j].pc = "running"
  /\ pipe' = [pipe EXCEPT ![j].pc = "spawn_error", ![j].bridge = "not_started"]
  /\ unhandled' = TRUE
  /\ UNCHANGED heap
  /\ response' = NoResponse
  /\ UNCHANGED <<storeVars, now, reqs>>

(* --------------------------- runETLPipeline ---------------------------- *)
RecordsProcessedNoDefault(result) == result.dataLen

\* result.data?.length || 0, line 386
RecordsProcessed(result) == IF result.dataLen = NoData THEN 0 ELSE result.dataLen

FailedUpdateNoEndTime(message) == [status |-> "failed", error |-> message]

FailedUpdateNoMessage(message) ==
  [status |-> "failed", endTime |-> now, error |-> NoError]

\* the partial record of lines 422-426
FailedUpdate(message) ==
  [status |-> "failed", endTime |-> now, error |-> message]

CatchBlockMissing(j, message) == UNCHANGED <<etlJobs, etlJobCurrentId>>

\* the catch block, lines 418-427
CatchBlock(j, message) == updateEtlJob(j, FailedUpdate(message))

CompletedUpdateNoRecords(result) ==
  [status |-> "completed", endTime |-> now, metadata |-> ResultMeta(result)]

\* lines 389-394
CompletedUpdate(result) ==
  [status |-> "completed", endTime |-> now,
   recordsProcessed |-> RecordsProcessed(result), metadata |-> ResultMeta(result)]

\* the continuation after "await runPythonScript": lines 385-394 when the
\* promise resolved, the catch block when it rejected or when line 386
\* throws on a null result
PipelineResume(j) ==
  /\ j \in DOMAIN pipe
  /\ pipe[j].pc \in {"resolved", "rejected"}
  /\ IF pipe[j].pc = "rejected"
     THEN /\ CatchBlock(j, pipe[j].error)
          /\ pipe' = [pipe EXCEPT ![j].pc = "done"]
     ELSE IF pipe[j].result.isNull
     THEN /\ CatchBlock(j, "Cannot read properties of null")
          /\ pipe' = [pipe EXCEPT ![j].pc = "done",
                                   ![j].error = "Cannot read properties of null"]
     ELSE /\ updateEtlJob(j, CompletedUpdate(pipe[j].result))
          /\ pipe' = [pipe EXCEPT ![j].pc = "completed_written"]
  /\ response' = NoResponse
  /\ UNCHANGED <<indicators, indicatorCurrentId, values, valueCurrentId,
                 analysisResults, analysisResultCurrentId, issued, now, unhandled, heap, reqs>>

PipelineLookupThenFail(j) ==
  /\ j \in DOMAIN pipe
  /\ pipe[j].pc = "completed_written"
  /\ CatchBlock(j, "store error")
  /\ pipe' = [pipe EXCEPT ![j].pc = "done", ![j].error = "store error"]
  /\ response' = NoResponse
  /\ UNCHANGED <<indicators, indicatorCurrentId, values, valueCurrentId,
                 analysisResults, analysisResultCurrentId, issued, now, unhandled, heap, reqs>>

\* lines 397-398: the lookup of the indicator, when the result has metadata
PipelineLookup(j) ==
  /\ j \in DOMAIN pipe
  /\ pipe[j].pc = "completed_written"
  /\ pipe' = IF pipe[j].result.meta # "none"
             THEN [pipe EXCEPT ![j].pc = "looked_up",
                     ![j].existing = getIndicatorBySymbol(indicators, pipe[j].seriesId)]
             ELSE [pipe EXCEPT ![j].pc = "done"]
  /\ response' = NoResponse
  /\ UNCHANGED <<storeVars, now, unhandled, heap, reqs>>

\* lines 405-413: the indicator made from the output's metadata
NewIndicator(series, result) ==
  Indicator(series, MetaField(result, "meta name", series),
            MetaField(result, "meta description", ""),
            MetaField(result, "meta frequency", "unknown"),
            MetaField(result, "meta units", ""), "FRED", now)

\* lines 400-414: update the indicator found, or create one
PipelineIngest(j) ==
  /\ j \in DOMAIN pipe
  /\ pipe[j].pc = "looked_up"
  /\ IF pipe[j].existing # 0
     THEN updateIndicator(pipe[j].existing, [lastUpdated |-> now])
     ELSE createIndicator(NewIndicator(pipe[j].seriesId, pipe[j].result))
  /\ pipe' = [pipe EXCEPT ![j].pc = "done"]
  /\ response' = NoResponse
  /\ UNCHANGED <<values, valueCurrentId, etlJobs, etlJobCurrentId,
                 analysisResults, analysisResultCurrentId, now, unhandled, heap, reqs>>

(* ------------------------ POST /etl/schedule --------------------------- *)
ScheduleValidNoDateCheck(task, timeStr, series) ==
  /\ task # Undefined
  /\ series # Undefined
  /\ timeStr # Undefined

\* scheduleSchema.parse, lines 433-444: task and series_id are strings and
\* scheduledTime is a string that Date.parse accepts
ScheduleValid(task, timeStr, series) ==
  /\ task # Undefined
  /\ series # Undefined
  /\ timeStr # Undefined
  /\ DateParse(timeStr) # NaN

\* the identifier of the first job created after construction
FirstNewJob == Len(SeedJobs(0, 0)) + 1

Scheduled == {j \in DOMAIN etlJobs : j >= FirstNewJob /\ j \notin DOMAIN pipe}

SchedulePostInProgress(task, timeStr, series, startDate, endDate) ==
  /\ IF ScheduleValid(task, timeStr, series)
     THEN /\ Cardinality(Scheduled) < MaxSchedules
          /\ createEtlJob(EtlJob(task, "in_progress", DateParse(timeStr), NoTime,
                                 NoCount, NoError,
                                 RequestMeta(series, startDate, endDate)))
          /\ response' = Response("schedule", 200, etlJobCurrentId)
          /\ UNCHANGED <<indicators, indicatorCurrentId>>
     ELSE /\ response' = Response("schedule", 400, 0)
          /\ UNCHANGED <<indicators, indicatorCurrentId, etlJobs,
                         etlJobCurrentId, issued>>
  /\ UNCHANGED <<values, valueCurrentId, analysisResults,
                 analysisResultCurrentId, now, pipe, unhandled, heap, reqs>>

\* lines 431-470
SchedulePost(task, timeStr, series, startDate, endDate) ==
  /\ IF ScheduleValid(task, timeStr, series)
     THEN /\ Cardinality(Scheduled) < MaxSchedules
          /\ createEtlJob(EtlJob(task, "scheduled", DateParse(timeStr), NoTime,
                                 NoCount, NoError,
                                 RequestMeta(series, startDate, endDate)))
          /\ response' = Response("schedule", 200, etlJobCurrentId)
          /\ UNCHANGED <<indicators, indicatorCurrentId>>
     ELSE /\ response' = Response("schedule", 400, 0)
          /\ UNCHANGED <<indicators, indicatorCurrentId, etlJobs,
                         etlJobCurrentId, issued>>
  /\ UNCHANGED <<values, valueCurrentId, analysisResults,
                 analysisResultCurrentId, now, pipe, unhandled, heap, reqs>>

(* ------------------------- listing of the jobs ------------------------- *)
\* the comparator of getEtlJobs, lines 239-244: b.startTime - a.startTime
\* when both are set, 0 otherwise
Compare(a, b) ==
  IF a.startTime # NoTime /\ b.startTime # NoTime
  THEN b.startTime - a.startTime
  ELSE 0

\* Array.prototype.sort of the runtime for an array of fewer than 64
\* elements: the first run is counted (and reversed when it is strictly
\* descending under the comparator), then the other elements are put in
\* place by binary insertion.  arr is a sequence of ids and cmp[a, b] the
\* value of the comparator for the records with ids a and b.
RECURSIVE RunEnd(_, _, _, _)
RunEnd(cmp, arr, idx, descending) ==
  IF idx > Len(arr) THEN idx - 1
  ELSE LET order == cmp[arr[idx], arr[idx - 1]] IN
         IF (descending /\ order >= 0) \/ (~descending /\ order < 0)
         THEN idx - 1
         ELSE RunEnd(cmp, arr, idx + 1, descending)

ReverseRange(arr, n) ==
  [i \in 1 .. Len(arr) |-> IF i <= n THEN arr[n + 1 - i] ELSE arr[i]]

CountAndMakeRun(cmp, arr) ==
  LET descending == cmp[arr[2], arr[1]] < 0
      run == RunEnd(cmp, arr, 3, descending)
  IN [arr |-> IF descending THEN ReverseRange(arr, run) ELSE arr, run |-> run]

\* left and right count from 0, as in the runtime
RECURSIVE BinarySearch(_, _, _, _, _)
BinarySearch(cmp, arr, pivot, left, right) ==
  IF left >= right THEN left
  ELSE LET mid == left + ((right - left) \div 2) IN
         IF cmp[pivot, arr[mid + 1]] < 0
         THEN BinarySearch(cmp, arr, pivot, left, mid)
         ELSE BinarySearch(cmp, arr, pivot, mid + 1, right)

\* the element at position start moved to position left + 1
InsertAt(arr, start, left) ==
  [i \in 1 .. Len(arr) |->
     IF i <= left THEN arr[i]
     ELSE IF i = left + 1 THEN arr[start]
     ELSE IF i <= start THEN arr[i - 1]
     ELSE arr[i]]

RECURSIVE BinaryInsertionSort(_, _, _)
BinaryInsertionSort(cmp, arr, start) ==
  IF start > Len(arr) THEN arr
  ELSE BinaryInsertionSort(
         cmp,
         InsertAt(arr, start, BinarySearch(cmp, arr, arr[start], 0, start - 1)),
         start + 1)

ArraySort(cmp, arr) ==
  IF Len(arr) < 2 THEN arr
  ELSE LET r == CountAndMakeRun(cmp, arr) IN
         BinaryInsertionSort(cmp, r.arr, r.run + 1)

\* Array.from(map.values()): the ids of the records in insertion order
ArrayFrom(map) == [i \in 1 .. Cardinality(DOMAIN map) |-> i]

\* a limit that is not given (undefined)
NoLimit == -1

\* getEtlJobs, lines 237-247, as the sequence of the ids of the jobs
\* returned; "limit ? jobs.slice(0, limit) : jobs" at line 246 takes the
\* slice when the limit is neither undefined nor 0
getEtlJobs(jobs, limit) ==
  LET cmp == [a \in DOMAIN jobs, b \in DOMAIN jobs |-> Compare(jobs[a], jobs[b])]
      sorted == ArraySort(cmp, ArrayFrom(jobs))
  IN IF limit # NoLimit /\ limit # 0
     THEN SubSeq(sorted, 1, IF limit < Len(sorted) THEN limit ELSE Len(sorted))
     ELSE sorted

\* the limit query parameter of GET /etl/jobs after line 304: not given, or
\* parseInt of "0", "2", "9"
LimitArgs == {NoLimit, 0, 2, 9}

\* GET /etl/jobs, lines 301-311
JobsGet(limit) ==
  /\ response' = [route |-> "jobs", code |-> 200, job_id |-> 0,
                  limit |-> limit, jobs |-> getEtlJobs(etlJobs, limit)]
  /\ UNCHANGED <<storeVars, now, pipe, unhandled, heap, reqs>>

(* ------------------------------ getValues ------------------------------ *)
\* a startDate or endDate that is not given
NoDate == -1

InRangeExclusive(date, startDate, endDate) ==
  /\ startDate # NoDate => date > startDate
  /\ endDate # NoDate => date < endDate

\* the two filters of lines 205-211
InRange(date, startDate, endDate) ==
  /\ startDate # NoDate => date >= startDate
  /\ endDate # NoDate => date <= endDate

\* getValues, lines 200-214, as the sequence of the ids of the values
\* returned
getValues(vals, indicatorId, startDate, endDate) ==
  LET cmp == [a \in DOMAIN vals, b \in DOMAIN vals |-> vals[a].date - vals[b].date]
      found == SelectSeq(ArrayFrom(vals),
                         LAMBDA v : /\ vals[v].indicatorId = indicatorId
                                    /\ InRange(vals[v].date, startDate, endDate))
  IN ArraySort(cmp, found)

\* the arguments of getValues
IndicatorIdArgs == {1, 9}

DateArgs == {NoDate, 2, 3}

\* a call of getValues; the answer is what the promise resolves to
ValuesGet(indicatorId, startDate, endDate) ==
  /\ response' = [route |-> "values", code |-> 200, job_id |-> 0,
                  indicatorId |-> indicatorId, startDate |-> startDate,
                  endDate |-> endDate,
                  values |-> getValues(values, indicatorId, startDate, endDate)]
  /\ UNCHANGED <<storeVars, now, pipe, unhandled, heap, reqs>>

(* --------------------------- GET /etl/status --------------------------- *)
\* the number of jobs the status is computed from, line 476
StatusWindow == 5

\* recentJobs.filter(job => job.status === status)
FilterStatus(jobs, recent, status) ==
  SelectSeq(recent, LAMBDA j : jobs[j].status = status)

PipelineStatusAllJobs(jobs, recent) ==
  IF \E j \in DOMAIN jobs : jobs[j].status = "in_progress"
  THEN "active" ELSE "idle"

\* lines 479-480
PipelineStatus(jobs, recent) ==
  IF Len(FilterStatus(jobs, recent, "in_progress")) > 0 THEN "active" ELSE "idle"

\* lines 483-484
LastRun(jobs, recent) ==
  LET completedJobs == FilterStatus(jobs, recent, "completed") IN
    IF Len(completedJobs) > 0 THEN jobs[completedJobs[1]].endTime ELSE NoTime

JobCountsNoFailed(jobs, recent) ==
  [completed |-> Len(FilterStatus(jobs, recent, "completed")),
   failed |-> 0,
   inProgress |-> Len(FilterStatus(jobs, recent, "in_progress")),
   scheduled |-> Len(FilterStatus(jobs, recent, "scheduled"))]

\* lines 487-492
JobCounts(jobs, recent) ==
  [completed |-> Len(FilterStatus(jobs, recent, "completed")),
   failed |-> Len(FilterStatus(jobs, recent, "failed")),
   inProgress |-> Len(FilterStatus(jobs, recent, "in_progress")),
   scheduled |-> Len(FilterStatus(jobs, recent, "scheduled"))]

\* GET /etl/status, lines 473-506
StatusGet ==
  /\ LET recentJobs == getEtlJobs(etlJobs, StatusWindow) IN
       response' = [route |-> "status", code |-> 200, job_id |-> 0,
                    status |-> PipelineStatus(etlJobs, recentJobs),
                    lastRun |-> LastRun(etlJobs, recentJobs),
                    jobCounts |-> JobCounts(etlJobs, recentJobs),
                    recentJobs |-> recentJobs]
  /\ UNCHANGED <<storeVars, now, pipe, unhandled, heap, reqs>>

(* ----------------------- direct calls of the store --------------------- *)
Value(indicatorId, date, value) ==
  [indicatorId |-> indicatorId, date |-> date, value |-> value]

AnalysisResult(type, inds, parameters, results, createdAt) ==
  [type |-> type, indicators |-> inds, parameters |-> parameters,
   results |-> results, createdAt |-> createdAt]

\* createValue, lines 216-221
createValue(rec) ==
  /\ values' = Put(values, valueCurrentId, rec)
  /\ valueCurrentId' = NextId(valueCurrentId)
  /\ issued' = Issue("value", valueCurrentId)

\* the map, the counter and the identifiers returned after the loop of
\* bulkCreateValues, lines 226-231, has run over the records from index k
RECURSIVE BulkLoop(_, _, _, _, _)
BulkLoop(recs, k, map, counter, ids) ==
  IF k > Len(recs) THEN [map |-> map, counter |-> counter, ids |-> ids]
  ELSE BulkLoop(recs, k + 1, Put(map, counter, recs[k]), NextId(counter),
                Append(ids, counter))

\* bulkCreateValues, lines 223-234
bulkCreateValues(recs) ==
  LET r == BulkLoop(recs, 1, values, valueCurrentId, <<>>) IN
    /\ values' = r.map
    /\ valueCurrentId' = r.counter
    /\ issued' = [issued EXCEPT !["value"] = @ \o r.ids]

\* createAnalysisResult, lines 284-289
createAnalysisResult(rec) ==
  /\ analysisResults' = Put(analysisResults, analysisResultCurrentId, rec)
  /\ analysisResultCurrentId' = NextId(analysisResultCurrentId)
  /\ issued' = Issue("analysisResult", analysisResultCurrentId)

\* records a caller can hand to the store
IndicatorInputs ==
  {Indicator(sym, sym, "", "monthly", "", "FRED", T0) : sym \in Symbols}

ValueInputs == {Value(1, 2, "1.5"), Value(9, 1, "0.5")}

ValueLists ==
  {<<>>} \cup {<<v>> : v \in ValueInputs}
         \cup {<<v, w>> : v \in ValueInputs, w \in ValueInputs}

EtlJobInputs ==
  {EtlJob("Direct", "in_progress", T0, NoTime, NoCount, NoError, NoMeta),
   EtlJob("Direct", "scheduled", NoTime, NoTime, NoCount, NoError, NoMeta)}

AnalysisInputs ==
  {AnalysisResult(t, <<"GDP">>, "parameters", "results", T0) :
     t \in {"correlation", "forecast"}}

SeedIndicatorCount == Len(SeedIndicators)

StoreCreateIndicator(rec) ==
  /\ indicatorCurrentId <= SeedIndicatorCount + MaxCreates
  /\ createIndicator(rec)
  /\ UNCHANGED <<values, valueCurrentId, etlJobs, etlJobCurrentId,
                 analysisResults, analysisResultCurrentId>>

StoreCreateValue(rec) ==
  /\ valueCurrentId <= MaxCreates
  /\ createValue(rec)
  /\ UNCHANGED <<indicators, indicatorCurrentId, etlJobs, etlJobCurrentId,
                 analysisResults, analysisResultCurrentId>>

StoreBulkCreateValues(recs) ==
  /\ valueCurrentId + Len(recs) <= MaxCreates + 1
  /\ bulkCreateValues(recs)
  /\ UNCHANGED <<indicators, indicatorCurrentId, etlJobs, etlJobCurrentId,
                 analysisResults, analysisResultCurrentId>>

StoreCreateEtlJob(rec) ==
  /\ etlJobCurrentId < FirstNewJob + MaxCreates
  /\ createEtlJob(rec)
  /\ UNCHANGED <<indicators, indicatorCurrentId, values, valueCurrentId,
                 analysisResults, analysisResultCurrentId>>

StoreCreateAnalysisResult(rec) ==
  /\ analysisResultCurrentId <= MaxCreates
  /\ createAnalysisResult(rec)
  /\ UNCHANGED <<indicators, indicatorCurrentId, values, valueCurrentId,
                 etlJobs, etlJobCurrentId>>

\* any caller of the store: its methods in any order
StoreNext ==
  /\ \/ \E rec \in IndicatorInputs : StoreCreateIndicator(rec)
     \/ \E rec \in ValueInputs : StoreCreateValue(rec)
     \/ \E recs \in ValueLists : StoreBulkCreateValues(recs)
     \/ \E rec \in EtlJobInputs : StoreCreateEtlJob(rec)
     \/ \E rec \in AnalysisInputs : StoreCreateAnalysisResult(rec)
  /\ UNCHANGED <<now, pipe, response, unhandled, heap, reqs>>

StoreSpec == Init /\ [][StoreNext]_vars

\* jobs with and without a startTime, started now or earlier
DatedJobs ==
  {EtlJob("Direct", "in_progress", T0, NoTime, NoCount, NoError, NoMeta),
   EtlJob("Direct", "scheduled", NoTime, NoTime, NoCount, NoError, NoMeta),
   EtlJob("Direct", "completed", T0 - 3, T0 - 2, 1, NoError, NoMeta)}

JobsCreate(rec) ==
  /\ etlJobCurrentId < FirstNewJob + MaxJobs
  /\ createEtlJob(rec)
  /\ response' = NoResponse
  /\ UNCHANGED <<indicators, indicatorCurrentId, values, valueCurrentId,
                 analysisResults, analysisResultCurrentId, now, pipe,
                 unhandled, heap, reqs>>

\* the callers of createEtlJob and the listing of the jobs
JobsNext ==
  \/ \E rec \in DatedJobs : JobsCreate(rec)
  \/ \E limit \in LimitArgs : JobsGet(limit)

JobsSpec == Init /\ [][JobsNext]_vars

\* values of two indicators over three dates
DatedValues ==
  {Value(1, 2, "1.5"), Value(1, 1, "0.7"), Value(1, 3, "0.9"), Value(9, 2, "0.5")}

DatedValueLists == {<<v, w>> : v \in DatedValues, w \in DatedValues}

ValuesCreate(rec) ==
  /\ valueCurrentId <= MaxValues
  /\ createValue(rec)
  /\ response' = NoResponse
  /\ UNCHANGED <<indicators, indicatorCurrentId, etlJobs, etlJobCurrentId,
                 analysisResults, analysisResultCurrentId, now, pipe,
                 unhandled, heap, reqs>>

ValuesBulkCreate(recs) ==
  /\ valueCurrentId + Len(recs) <= MaxValues + 1
  /\ bulkCreateValues(recs)
  /\ response' = NoResponse
  /\ UNCHANGED <<indicators, indicatorCurrentId, etlJobs, etlJobCurrentId,
                 analysisResults, analysisResultCurrentId, now, pipe,
                 unhandled, heap, reqs>>

\* the callers of the value methods of the store
ValuesNext ==
  \/ \E rec \in DatedValues : ValuesCreate(rec)
  \/ \E recs \in DatedValueLists : ValuesBulkCreate(recs)
  \/ \E i \in IndicatorIdArgs, sd \in DateArgs, ed \in DateArgs : ValuesGet(i, sd, ed)

ValuesSpec == Init /\ [][ValuesNext]_vars

(* ------------------------- the analysis routes ------------------------- *)
AnalysisTypes == {"correlation", "forecast", "moving_averages", "volatility"}

\* the series query parameter
AnalysisSeriesArgs == {Undefined, "GDP,UNRATE"}

\* the model query parameter of /forecast
ModelArgs == {Undefined, "prophet"}

\* (series as string).split(","), lines 62 and 106
Split(series) ==
  CASE series = "GDP,UNRATE" -> <<"GDP", "UNRATE">>
    [] OTHER -> <<series>>

\* { x = fallback } = req.query, line 96
Default(x, fallback) == IF x = Undefined THEN fallback ELSE x

\* Parsed JSON values analysis.py can print.  error: "absent" (no error
\* field), "truthy" (a message), "falsy" (the field is null or "").
AnalysisValue(isNull, error) == [isNull |-> isNull, error |-> error]

\* null, {..}, {"error": "message"}, {"error": null}
AnalysisOutputs ==
  {AnalysisValue(TRUE, "absent"), AnalysisValue(FALSE, "absent"),
   AnalysisValue(FALSE, "truthy"), AnalysisValue(FALSE, "falsy")}

AnalysisStdouts == {[json |-> FALSE, value |-> JsonNull]} \cup
                   {[json |-> TRUE, value |-> v] : v \in AnalysisOutputs}

\* the indicators of the result: seriesIds for /correlation (line 81),
\* [seriesId] for the others (line 131)
RequestIndicators(type, series) ==
  IF type = "correlation" THEN Split(series) ELSE <<Split(series)[1]>>

\* parameters, lines 82 and 132
RequestParameters(type, startDate, endDate, model) ==
  IF type = "forecast"
  THEN [start_date |-> startDate, end_date |-> endDate,
        model |-> Default(model, "arima"), periods |-> "10"]
  ELSE [start_date |-> startDate, end_date |-> endDate,
        model |-> Undefined, periods |-> Undefined]

Request(type, series, startDate, endDate, model) ==
  [type |-> type, series |-> series, startDate |-> startDate,
   endDate |-> endDate, model |-> model, pc |-> "created",
   bridge |-> "pending", result |-> JsonNull, error |-> NoError,
   code |-> 0, stored |-> 0]

\* a handler up to "await runPythonScript": 400 without a series, otherwise
\* the bridge is called (lines 52-75, 96-121, 147-171, 182-210)
AnalysisGet(type, series, startDate, endDate, model) ==
  /\ IF Falsy(series)
     THEN /\ response' = Response(type, 400, 0)
          /\ UNCHANGED reqs
     ELSE /\ Len(reqs) < MaxRequests
          /\ \E scriptExists \in BOOLEAN :
               reqs' = Append(reqs, BridgeStart(Request(type, series, startDate,
                                                        endDate, model),
                                                scriptExists))
          /\ response' = NoResponse
  /\ UNCHANGED <<storeVars, now, pipe, unhandled, heap>>

\* the "close" handler of the process of request r, lines 34-46
AnalysisClose(r) ==
  /\ r \in DOMAIN reqs
  /\ reqs[r].pc = "running"
  /\ \E code \in {0, 1}, out \in AnalysisStdouts :
       reqs' = [reqs EXCEPT ![r] = BridgeClose(@, code, out)]
  /\ response' = NoResponse
  /\ UNCHANGED <<storeVars, now, pipe, unhandled, heap>>

\* spawn cannot start the interpreter: lines 22-46 register no "error"
\* listener either
AnalysisSpawnError(r) ==
  /\ r \in DOMAIN reqs
  /\ reqs[r].pc = "running"
  /\ reqs' = [reqs EXCEPT ![r].pc = "spawn_error", ![r].bridge = "not_started"]
  /\ unhandled' = TRUE
  /\ UNCHANGED heap
  /\ response' = NoResponse
  /\ UNCHANGED <<storeVars, now, pipe>>

\* !forecastData.error, line 128
NoErrorField(result) == result.error # "truthy"

\* whether the handler calls createAnalysisResult: /correlation always
\* (line 79), /forecast when the output has no error (line 128), the other
\* two never
Persists(type, result) ==
  \/ type = "correlation"
  \/ type = "forecast" /\ NoErrorField(result)

\* the catch block of a handler, lines 88-90
Answer(r, code) ==
  /\ reqs' = [reqs EXCEPT ![r].pc = "answered", ![r].code = code]
  /\ response' = Response(reqs[r].type, code, 0)

\* the continuation after "await runPythonScript"
AnalysisResume(r) ==
  /\ r \in DOMAIN reqs
  /\ reqs[r].pc \in {"resolved", "rejected"}
  /\ LET q == reqs[r] IN
       IF q.pc = "rejected" \/ (q.type = "forecast" /\ q.result.isNull)
       THEN /\ Answer(r, 500)
            /\ UNCHANGED <<analysisResults, analysisResultCurrentId, issued>>
       ELSE IF Persists(q.type, q.result)
       THEN /\ createAnalysisResult(
                 AnalysisResult(q.type, RequestIndicators(q.type, q.series),
                                RequestParameters(q.type, q.startDate, q.endDate,
                                                  q.model),
                                q.result, now))
            /\ reqs' = [reqs EXCEPT ![r].pc = "stored",
                                    ![r].stored = analysisResultCurrentId]
            /\ response' = NoResponse
       ELSE /\ Answer(r, 200)
            /\ UNCHANGED <<analysisResults, analysisResultCurrentId, issued>>
  /\ UNCHANGED <<indicators, indicatorCurrentId, values, valueCurrentId,
                 etlJobs, etlJobCurrentId, now, pipe, unhandled, heap>>

\* res.json after "await storage.createAnalysisResult", lines 87 and 138
AnalysisAnswer(r) ==
  /\ r \in DOMAIN reqs
  /\ reqs[r].pc = "stored"
  /\ Answer(r, 200)
  /\ UNCHANGED <<storeVars, now, pipe, unhandled, heap>>

AnalysisNext ==
  \/ \E t \in AnalysisTypes, s \in AnalysisSeriesArgs, d \in DateRanges,
        m \in ModelArgs : AnalysisGet(t, s, d[1], d[2], m)
  \/ \E r \in DOMAIN reqs : AnalysisClose(r)
  \/ \E r \in DOMAIN reqs : AnalysisSpawnError(r)
  \/ \E r \in DOMAIN reqs : AnalysisResume(r)
  \/ \E r \in DOMAIN reqs : AnalysisAnswer(r)

AnalysisSpec == Init /\ [][AnalysisNext]_vars


Next ==
  \/ Tick
  \/ \E s \in SeriesArgs, d \in DateRanges : RunPost(s, d[1], d[2])
  \/ \E j \in DOMAIN pipe : RunStart(j)
  \/ \E j \in DOMAIN pipe : ProcClose(j)
  \/ \E j \in DOMAIN pipe : ProcSpawnError(j)
  \/ \E j \in DOMAIN pipe : PipelineResume(j)
  \/ \E j \in DOMAIN pipe : PipelineLookup(j)
  \/ \E j \in DOMAIN pipe : PipelineIngest(j)
  \/ \E t \in TaskArgs, ts \in TimeArgs, s \in ScheduleSeriesArgs, d \in DateRanges :
       SchedulePost(t, ts, s, d[1], d[2])

Spec == Init /\ [][Next]_vars

\* the same system with the scheduling the event loop gives: a continuation
\* that is ready runs, and (the assumption of the claim) a process that was
\* started exits
Fairness ==
  \A j \in FirstNewJob .. (FirstNewJob + MaxRuns + MaxSchedules) :
    /\ WF_vars(RunStart(j))
    /\ WF_vars(ProcClose(j))
    /\ WF_vars(PipelineResume(j))
    /\ WF_vars(PipelineLookup(j))
    /\ WF_vars(PipelineIngest(j))

\* the submissions and executions of jobs, without the clock and the
\* schedule requests, which no step of an execution waits for
RunNext ==
  \/ \E s \in SeriesArgs, d \in DateRanges : RunPost(s, d[1], d[2])
  \/ \E j \in DOMAIN pipe : RunStart(j)
  \/ \E j \in DOMAIN pipe : ProcClose(j)
  \/ \E j \in DOMAIN pipe : ProcSpawnError(j)
  \/ \E j \in DOMAIN pipe : PipelineResume(j)
  \/ \E j \in DOMAIN pipe : PipelineLookup(j)
  \/ \E j \in DOMAIN pipe : PipelineIngest(j)

RunSpec == Init /\ [][RunNext]_vars

LiveSpec == RunSpec /\ Fairness

\* the executions of jobs while the clock advances
ClockNext ==
  \/ Tick
  \/ \E s \in SeriesArgs, d \in DateRanges : RunPost(s, d[1], d[2])
  \/ \E j \in DOMAIN pipe : RunStart(j)
  \/ \E j \in DOMAIN pipe : ProcClose(j)
  \/ \E j \in DOMAIN pipe : ProcSpawnError(j)
  \/ \E j \in DOMAIN pipe : PipelineResume(j)
  \/ \E j \in DOMAIN pipe : PipelineLookup(j)
  \/ \E j \in DOMAIN pipe : PipelineIngest(j)

ClockSpec == Init /\ [][ClockNext]_vars

\* the arguments of direct calls of updateEtlJob and updateIndicator: the
\* seeded job 3 and indicator 1, and an id that is not in the store
UpdateJobIds == {3, 9}

JobPartials == {[recordsProcessed |-> 7], [status |-> "failed", error |-> "Direct"]}

IndicatorPartials == {[name |-> "Renamed"]}

\* a call of updateEtlJob; found: the promise resolves to a record, not to
\* undefined (lines 260-267)
UpdateEtlJobCall(id, partial) ==
  /\ updateEtlJob(id, partial)
  /\ response' = [route |-> "updateEtlJob", code |-> 200, job_id |-> 0,
                  id |-> id, partial |-> partial,
                  found |-> id \in DOMAIN etlJobs]
  /\ UNCHANGED <<indicators, indicatorCurrentId, values, valueCurrentId,
                 analysisResults, analysisResultCurrentId, issued, now, pipe,
                 unhandled, heap, reqs>>

\* a call of updateIndicator (lines 190-197)
UpdateIndicatorCall(id, partial) ==
  /\ updateIndicator(id, partial)
  /\ response' = [route |-> "updateIndicator", code |-> 200, job_id |-> 0,
                  id |-> id, partial |-> partial,
                  found |-> id \in DOMAIN indicators]
  /\ UNCHANGED <<values, valueCurrentId, etlJobs, etlJobCurrentId,
                 analysisResults, analysisResultCurrentId, now, pipe,
                 unhandled, heap, reqs>>

\* the executions of jobs together with direct calls of the two updates
UpdateNext ==
  \/ RunNext
  \/ \E id \in UpdateJobIds, partial \in JobPartials : UpdateEtlJobCall(id, partial)
  \/ \E id \in IndicatorIdArgs, partial \in IndicatorPartials :
       UpdateIndicatorCall(id, partial)

UpdateSpec == Init /\ [][UpdateNext]_vars

(* ----------------- runPythonScript, one call at a time ------------------ *)
\* calls of runPythonScript after which BridgeSpec stops
MaxCalls == 2

\* exit codes of the process and what it wrote to stderr
ExitCodes == {0, 1, 2}

Stderrs == {"", "Traceback"}

\* new Error(`Python script exited with code ${code}: ${errorOutput}`), line 287
ExitError(code, errorOutput) ==
  [text |-> "Python script exited with code", code |-> code, stderr |-> errorOutput]

\* the calls of resolve and reject that the "close" handler makes, lines
\* 285-296, in order
CloseHandler(code, errorOutput, out) ==
  IF code # 0
  THEN <<[kind |-> "reject", error |-> ExitError(code, errorOutput)]>>
  ELSE IF JSONParse(out).ok
       THEN <<[kind |-> "resolve", value |-> JSONParse(out).value]>>
       ELSE <<[kind |-> "reject",
               error |-> [text |-> "Failed to parse Python script output"]]>>

\* the calls of resolve and reject made before the promise is returned,
\* lines 268-271
ExistsCheck(scriptExists) ==
  IF scriptExists THEN <<>>
  ELSE <<[kind |-> "reject", error |-> [text |-> "Python script not found"]]>>

\* a call of runPythonScript up to the promise it returns; the call is over
\* at once when the script is missing
BridgeCall(scriptExists) ==
  /\ IF response.route = "runPythonScript" THEN response.over ELSE TRUE
  /\ (IF response.route = "runPythonScript" THEN response.call ELSE 0) < MaxCalls
  /\ response' = [route |-> "runPythonScript", code |-> 0, job_id |-> 0,
                  call |-> IF response.route = "runPythonScript"
                           THEN response.call + 1 ELSE 1,
                  p |-> BridgeStart(Pipe("created", "GDP", Undefined, Undefined),
                                    scriptExists),
                  scriptExists |-> scriptExists,
                  spawned |-> scriptExists,
                  exit |-> 0, stderr |-> "", stdout |-> [json |-> FALSE, value |-> JsonNull],
                  over |-> ~scriptExists,
                  settles |-> ExistsCheck(scriptExists)]
  /\ UNCHANGED <<storeVars, now, pipe, unhandled, heap, reqs>>

\* the process of the call closes
BridgeExit(code, errorOutput, out) ==
  /\ response.route = "runPythonScript"
  /\ ~response.over
  /\ response' = [response EXCEPT !.p = BridgeClose(@, code, out),
                                  !.exit = code, !.stderr = errorOutput,
                                  !.stdout = out, !.over = TRUE,
                                  !.settles = @ \o CloseHandler(code, errorOutput, out)]
  /\ UNCHANGED <<storeVars, now, pipe, unhandled, heap, reqs>>

\* the process of the call cannot be started: "error" is emitted, there is
\* no listener (lines 273-296), and "close" is never emitted
BridgeSpawnError ==
  /\ response.route = "runPythonScript"
  /\ ~response.over
  /\ response' = [response EXCEPT !.p = [@ EXCEPT !.pc = "spawn_error",
                                                  !.bridge = "not_started"],
                                  !.spawned = FALSE, !.over = TRUE]
  /\ unhandled' = TRUE
  /\ UNCHANGED <<storeVars, now, pipe, heap, reqs>>

BridgeNext ==
  \/ \E scriptExists \in BOOLEAN : BridgeCall(scriptExists)
  \/ \E code \in ExitCodes, errorOutput \in Stderrs, out \in Stdouts :
       BridgeExit(code, errorOutput, out)
  \/ BridgeSpawnError

BridgeSpec == Init /\ [][BridgeNext]_vars

(* ------------------- the arrays the listings return -------------------- *)
\* allocations after which SnapshotSpec stops
MaxAllocs == 3

SeedObjects == Len(SeedIndicators) + 5

StoreObjectInPlace(kind, id, rec) ==
  IF id \in DOMAIN heap[kind]
  THEN [heap EXCEPT !.objects[heap[kind][id]] = rec]
  ELSE [heap EXCEPT !.objects = Append(@, rec),
                    ![kind] = Put(@, id, Len(heap.objects) + 1)]

\* const x = { ... }; this.<kind>.set(id, x): a new object is allocated and
\* the Map entry is pointed at it; creates and updates alike (lines 185-186,
\* 194-195, 218-219, 255-256, 264-265, 286-287)
StoreObject(kind, id, rec) ==
  [heap EXCEPT !.objects = Append(@, rec),
               ![kind] = Put(@, id, Len(heap.objects) + 1)]

\* this.<kind>.get(id), as the content of the object found
Object(kind, id) == heap.objects[heap[kind][id]]

\* the array a listing returns: a new array (Array.from, filter, slice)
\* whose elements are the stored objects themselves
Hold(op, kind, ids) ==
  [heap EXCEPT !.held = [op |-> op,
                         array |-> [i \in DOMAIN ids |-> heap[kind][ids[i]]],
                         copy |-> [i \in DOMAIN ids |-> Object(kind, ids[i])]]]

\* the type argument of getAnalysisResults
TypeArgs == {Undefined, "forecast"}

\* getAnalysisResults, lines 270-278, as the sequence of the ids returned
getAnalysisResults(results, type) ==
  LET cmp == [a \in DOMAIN results, b \in DOMAIN results |->
                results[b].createdAt - results[a].createdAt]
      found == IF Falsy(type) THEN ArrayFrom(results)
               ELSE SelectSeq(ArrayFrom(results), LAMBDA r : results[r].type = type)
  IN ArraySort(cmp, found)

\* getIndicators, lines 169-171, as the sequence of the ids returned
getIndicators(inds) == ArrayFrom(inds)

CanAllocate == Len(heap.objects) < SeedObjects + MaxAllocs

HeapCreateIndicator(rec) ==
  /\ CanAllocate
  /\ createIndicator(rec)
  /\ heap' = StoreObject("indicators", indicatorCurrentId, rec)
  /\ UNCHANGED <<values, valueCurrentId, etlJobs, etlJobCurrentId,
                 analysisResults, analysisResultCurrentId,
                 now, pipe, response, unhandled, reqs>>

HeapCreateValue(rec) ==
  /\ CanAllocate
  /\ createValue(rec)
  /\ heap' = StoreObject("values", valueCurrentId, rec)
  /\ UNCHANGED <<indicators, indicatorCurrentId, etlJobs, etlJobCurrentId,
                 analysisResults, analysisResultCurrentId,
                 now, pipe, response, unhandled, reqs>>

HeapCreateEtlJob(rec) ==
  /\ CanAllocate
  /\ createEtlJob(rec)
  /\ heap' = StoreObject("etlJobs", etlJobCurrentId, rec)
  /\ UNCHANGED <<indicators, indicatorCurrentId, values, valueCurrentId,
                 analysisResults, analysisResultCurrentId,
                 now, pipe, response, unhandled, reqs>>

HeapCreateAnalysisResult(rec) ==
  /\ CanAllocate
  /\ createAnalysisResult(rec)
  /\ heap' = StoreObject("analysisResults", analysisResultCurrentId, rec)
  /\ UNCHANGED <<indicators, indicatorCurrentId, values, valueCurrentId,
                 etlJobs, etlJobCurrentId, now, pipe, response, unhandled, reqs>>

\* updateEtlJob, lines 260-267: the merged record is a new object
HeapUpdateEtlJob(id, partial) ==
  /\ CanAllocate
  /\ updateEtlJob(id, partial)
  /\ heap' = IF id \in DOMAIN heap.etlJobs
             THEN StoreObject("etlJobs", id, Merge(Object("etlJobs", id), partial))
             ELSE heap
  /\ UNCHANGED <<indicators, indicatorCurrentId, values, valueCurrentId,
                 analysisResults, analysisResultCurrentId, issued,
                 now, pipe, response, unhandled, reqs>>

\* updateIndicator, lines 190-197
HeapUpdateIndicator(id, partial) ==
  /\ CanAllocate
  /\ updateIndicator(id, partial)
  /\ heap' = IF id \in DOMAIN heap.indicators
             THEN StoreObject("indicators", id, Merge(Object("indicators", id), partial))
             ELSE heap
  /\ UNCHANGED <<values, valueCurrentId, etlJobs, etlJobCurrentId,
                 analysisResults, analysisResultCurrentId,
                 now, pipe, response, unhandled, reqs>>

\* the four listings; the caller keeps the array
HeapGetEtlJobs(limit) ==
  /\ heap' = Hold("getEtlJobs", "etlJobs", getEtlJobs(etlJobs, limit))
  /\ UNCHANGED <<storeVars, now, pipe, response, unhandled, reqs>>

HeapGetIndicators ==
  /\ heap' = Hold("getIndicators", "indicators", getIndicators(indicators))
  /\ UNCHANGED <<storeVars, now, pipe, response, unhandled, reqs>>

HeapGetValues(indicatorId) ==
  /\ heap' = Hold("getValues", "values", getValues(values, indicatorId, NoDate, NoDate))
  /\ UNCHANGED <<storeVars, now, pipe, response, unhandled, reqs>>

HeapGetAnalysisResults(type) ==
  /\ heap' = Hold("getAnalysisResults", "analysisResults",
                  getAnalysisResults(analysisResults, type))
  /\ UNCHANGED <<storeVars, now, pipe, response, unhandled, reqs>>

SnapshotNext ==
  \/ \E rec \in IndicatorInputs : HeapCreateIndicator(rec)
  \/ \E rec \in ValueInputs : HeapCreateValue(rec)
  \/ \E rec \in EtlJobInputs : HeapCreateEtlJob(rec)
  \/ \E rec \in AnalysisInputs : HeapCreateAnalysisResult(rec)
  \/ \E id \in UpdateJobIds, partial \in JobPartials : HeapUpdateEtlJob(id, partial)
  \/ \E id \in IndicatorIdArgs, partial \in IndicatorPartials :
       HeapUpdateIndicator(id, partial)
  \/ \E limit \in LimitArgs : HeapGetEtlJobs(limit)
  \/ HeapGetIndicators
  \/ \E indicatorId \in IndicatorIdArgs : HeapGetValues(indicatorId)
  \/ \E type \in TypeArgs : HeapGetAnalysisResults(type)

SnapshotSpec == Init /\ [][SnapshotNext]_vars

\* the accepted requests of the ETL router (a refused request changes
\* nothing), the executions of the jobs, the clock and the status
StatusNext ==
  \/ Tick
  \/ \E s \in Symbols, d \in DateRanges : RunCreate(s, d[1], d[2])
  \/ \E j \in DOMAIN pipe : RunStart(j)
  \/ \E j \in DOMAIN pipe : ProcClose(j)
  \/ \E j \in DOMAIN pipe : ProcSpawnError(j)
  \/ \E j \in DOMAIN pipe : PipelineResume(j)
  \/ \E j \in DOMAIN pipe : PipelineLookup(j)
  \/ \E j \in DOMAIN pipe : PipelineIngest(j)
  \/ \E d \in DateRanges : SchedulePost("Nightly", "t6", "GDP", d[1], d[2])
  \/ StatusGet

StatusSpec == Init /\ [][StatusNext]_vars

\* the executions of jobs over a longer time, with the status read
LateNext ==
  \/ Advance(MaxLateTicks)
  \/ RunNext
  \/ StatusGet

LateSpec == Init /\ [][LateNext]_vars

(* ------------------------------ claims --------------------------------- *)
JobIds == FirstNewJob .. (FirstNewJob + MaxRuns + MaxSchedules)

Terminal(status) == status \in {"completed", "failed"}

Finished(j) == j \in DOMAIN pipe /\ pipe[j].pc = "done"

IndicatorsOf(symbol) == {i \in DOMAIN indicators : indicators[i].symbol = symbol}

\* C1: for each kind of record the identifiers that create returned, in call
\* order, are strictly increasing, and each is the key of a record of its
\* own (no identifier was given to two records).
StoreOf(kind) ==
  CASE kind = "indicator" -> indicators
    [] kind = "value" -> values
    [] kind = "etlJob" -> etlJobs
    [] kind = "analysisResult" -> analysisResults

C1_IdsIncrease ==
  \A kind \in DOMAIN issued :
    /\ \A a, b \in 1 .. Len(issued[kind]) :
         a < b => issued[kind][a] < issued[kind][b]
    /\ {issued[kind][a] : a \in 1 .. Len(issued[kind])} = DOMAIN StoreOf(kind)
    /\ Len(issued[kind]) = Cardinality(DOMAIN StoreOf(kind))

C1_Witness ==
  /\ Len(issued["value"]) = MaxCreates
  /\ Len(issued["analysisResult"]) = MaxCreates
  /\ Len(issued["indicator"]) = SeedIndicatorCount + MaxCreates
  /\ Len(issued["etlJob"]) = FirstNewJob - 1 + MaxCreates

\* C2: the status of a job changes only along scheduled -> in_progress,
\* in_progress -> completed and in_progress -> failed, so a completed or
\* failed job keeps its status.
StatusTransitions ==
  {<<"scheduled", "in_progress">>, <<"in_progress", "completed">>,
   <<"in_progress", "failed">>}

C2_StatusMonotonic ==
  [][\A j \in DOMAIN etlJobs :
       etlJobs'[j].status # etlJobs[j].status =>
         <<etlJobs[j].status, etlJobs'[j].status>> \in StatusTransitions]_vars

C2_Witness ==
  \E j, k \in DOMAIN pipe :
    /\ Finished(j) /\ etlJobs[j].status = "completed"
    /\ pipe[j].result.meta # "none"
    /\ Finished(k) /\ etlJobs[k].status = "failed"

\* C3: a job whose bridge call failed (script missing, exit code not 0,
\* output not JSON) ends failed with an error and an endTime, and no step
\* of its execution changes the indicators or the analysis results.
C3_BridgeFailure ==
  [][\A j \in DOMAIN pipe' :
       /\ (pipe'[j].bridge = "failed" /\ pipe'[j].pc = "done") =>
            /\ etlJobs'[j].status = "failed"
            /\ etlJobs'[j].error # NoError
            /\ etlJobs'[j].endTime # NoTime
       /\ pipe'[j].bridge = "failed" => pipe'[j].pc \in {"rejected", "done"}
       /\ ((j \notin DOMAIN pipe \/ pipe'[j] # pipe[j]) /\ pipe'[j].bridge # "ok") =>
            /\ indicators' = indicators
            /\ indicatorCurrentId' = indicatorCurrentId
            /\ analysisResults' = analysisResults]_vars

C3_Witness ==
  \E j \in DOMAIN pipe :
    /\ Finished(j)
    /\ pipe[j].bridge = "failed"
    /\ pipe[j].error = "Python script exited with code"
    /\ etlJobs[j].status = "failed"

\* C4: POST /etl/run with a series_id adds exactly one job, in_progress; the
\* step that answers is enabled as soon as the job is stored, whatever the
\* processes of other jobs do, and answers with the id of a job that is
\* in_progress with endTime, recordsProcessed and error null.
C4_Created ==
  \A j \in DOMAIN pipe' \ DOMAIN pipe :
    /\ DOMAIN etlJobs' = DOMAIN etlJobs \cup {j}
    /\ j \notin DOMAIN etlJobs
    /\ \A k \in DOMAIN etlJobs : etlJobs'[k] = etlJobs[k]
    /\ etlJobs'[j].status = "in_progress"

C4_Answered ==
  (response'.route = "run" /\ response'.code = 200) =>
    LET j == response'.job_id IN
      /\ j \in DOMAIN pipe /\ pipe[j].pc = "created"
      /\ etlJobs'[j].status = "in_progress"
      /\ etlJobs'[j].endTime = NoTime
      /\ etlJobs'[j].recordsProcessed = NoCount
      /\ etlJobs'[j].error = NoError

C4_SubmitNeverBlocks ==
  /\ [](\A j \in DOMAIN pipe : pipe[j].pc = "created" => ENABLED RunStart(j))
  /\ [][C4_Created /\ C4_Answered]_vars

C4_Witness ==
  /\ response.route = "run" /\ response.code = 200
  /\ \E k \in DOMAIN pipe : k # response.job_id /\ pipe[k].pc = "running"

\* C5: under fair scheduling of the continuations and of process exit, every
\* job submitted by POST /etl/run whose process was started ends completed
\* or failed.
C5_EveryJobEnds ==
  \A j \in JobIds :
    (j \in DOMAIN pipe) ~>
      (j \in DOMAIN pipe /\
         (Terminal(etlJobs[j].status) \/ pipe[j].pc = "spawn_error"))

C5_Witness ==
  \E j, k \in DOMAIN pipe :
    j # k /\ pipe[j].pc = "running" /\ pipe[k].pc = "running"

\* C6: no failure of a job's execution is thrown outside every handler.
C6_NoUnhandledError ==
  /\ unhandled = FALSE
  /\ \A j \in DOMAIN pipe :
       (pipe[j].bridge \notin {"pending", "ok"} /\ pipe[j].pc = "done") =>
         etlJobs[j].status = "failed"

C8_ValidJob(j) ==
  IF j \in DOMAIN pipe'
  THEN ~Falsy(etlJobs'[j].metadata.series_id)
  ELSE /\ etlJobs'[j].task # Undefined
       /\ etlJobs'[j].startTime # NaN
       /\ etlJobs'[j].metadata.series_id # Undefined

C8_RejectChangesNothing ==
  [][/\ response'.code = 400 => UNCHANGED <<storeVars, pipe, now, unhandled, heap>>
     /\ \A j \in DOMAIN etlJobs' \ DOMAIN etlJobs : C8_ValidJob(j)]_vars

C8_Witness ==
  /\ response.route = "schedule" /\ response.code = 400
  /\ Scheduled # {}
  /\ \E j \in DOMAIN pipe : pipe[j].pc = "running"

C11_OnlyLastUpdated ==
  [][\A j \in DOMAIN pipe :
       /\ (/\ pipe[j].pc = "completed_written"
           /\ pipe'[j].pc # "completed_written"
           /\ pipe[j].result.meta # "none"
           /\ IndicatorsOf(pipe[j].seriesId) # {}) =>
            /\ pipe'[j].pc = "looked_up"
            /\ pipe'[j].existing \in IndicatorsOf(pipe[j].seriesId)
       /\ (/\ pipe[j].pc = "looked_up"
           /\ pipe'[j].pc = "done"
           /\ pipe[j].existing # 0) =>
            LET e == pipe[j].existing IN
              /\ etlJobs[j].status = "completed"
              /\ indicators[e].symbol = pipe[j].seriesId
              /\ DOMAIN indicators' = DOMAIN indicators
              /\ indicatorCurrentId' = indicatorCurrentId
              /\ \A i \in DOMAIN indicators \ {e} : indicators'[i] = indicators[i]
              /\ DOMAIN indicators'[e] = DOMAIN indicators[e]
              /\ \A f \in DOMAIN indicators[e] \ {"lastUpdated"} :
                   indicators'[e][f] = indicators[e][f]
              /\ indicators'[e].lastUpdated = now]_vars

C11_Witness ==
  \E j, k \in DOMAIN pipe :
    /\ j # k
    /\ Finished(j) /\ Finished(k)
    /\ pipe[j].existing = 1 /\ pipe[k].existing = 1
    /\ indicators[1].lastUpdated = T0 + 1
    /\ Cardinality(DOMAIN indicators) = SeedIndicatorCount

\* C12: a request whose bridge invocation failed (script missing, process
\* not started, exit code not 0, output not JSON) is answered with status
\* 500, and no step of such a request changes the store.
C12_FailureAnswered ==
  [][\A r \in DOMAIN reqs' :
       /\ reqs'[r].bridge \in {"failed", "not_started"} =>
            reqs'[r].pc \in {"rejected", "answered"}
       /\ (reqs'[r].bridge \in {"failed", "not_started"}
              /\ reqs'[r].pc = "answered") => reqs'[r].code = 500
       /\ ((r \notin DOMAIN reqs \/ reqs'[r] # reqs[r])
              /\ reqs'[r].bridge # "ok") => UNCHANGED storeVars]_vars

\* C13: every answered request, of any of the four types, whose bridge
\* succeeded with an object without an error field has stored one analysis
\* result of its own, with its type, indicators, parameters and the output.
C13_SuccessPersisted ==
  /\ \A r \in DOMAIN reqs :
       (/\ reqs[r].pc = "answered"
        /\ reqs[r].bridge = "ok"
        /\ ~reqs[r].result.isNull
        /\ reqs[r].result.error = "absent") =>
         /\ reqs[r].stored \in DOMAIN analysisResults
         /\ analysisResults[reqs[r].stored].type = reqs[r].type
         /\ analysisResults[reqs[r].stored].indicators =
              RequestIndicators(reqs[r].type, reqs[r].series)
         /\ analysisResults[reqs[r].stored].parameters =
              RequestParameters(reqs[r].type, reqs[r].startDate,
                                reqs[r].endDate, reqs[r].model)
         /\ analysisResults[reqs[r].stored].results = reqs[r].result
  /\ \A r, q \in DOMAIN reqs :
       (reqs[r].stored # 0 /\ reqs[r].stored = reqs[q].stored) => r = q
  /\ Cardinality(DOMAIN analysisResults) =
       Cardinality({r \in DOMAIN reqs : reqs[r].stored # 0})

\* C14: an answered forecast, moving-average or volatility request whose
\* output contains an error field has stored no analysis result, and a
\* correlation request whose bridge succeeded has stored one once it is
\* past the continuation, whatever its output contains.
C14_ErrorAsymmetry ==
  \A r \in DOMAIN reqs :
    (reqs[r].bridge = "ok" /\ reqs[r].pc \in {"stored", "answered"}) =>
      /\ (reqs[r].type # "correlation"
            /\ ~reqs[r].result.isNull
            /\ reqs[r].result.error # "absent") => reqs[r].stored = 0
      /\ reqs[r].type = "correlation" =>
            reqs[r].stored \in DOMAIN analysisResults

\* the ids of a listing
Listed(listing) == {listing[a] : a \in 1 .. Len(listing)}

\* C15: the status answered by GET /etl/status is active exactly when one of
\* the 5 most recent jobs is in_progress: the jobs it was computed from are
\* 5 jobs (all jobs when there are fewer), listed by startTime descending,
\* none of them started before a job that is left out.
C15_ActiveIffInProgress ==
  response.route = "status" =>
    LET recent == response.recentJobs
        n == Cardinality(DOMAIN etlJobs)
    IN /\ Len(recent) = (IF n < 5 THEN n ELSE 5)
       /\ Cardinality(Listed(recent)) = Len(recent)
       /\ Listed(recent) \subseteq DOMAIN etlJobs
       /\ \A a, b \in 1 .. Len(recent) :
            a < b => etlJobs[recent[a]].startTime >= etlJobs[recent[b]].startTime
       /\ \A j \in Listed(recent), k \in DOMAIN etlJobs \ Listed(recent) :
            etlJobs[j].startTime >= etlJobs[k].startTime
       /\ response.status \in {"active", "idle"}
       /\ response.status = "active" <=>
            \E j \in Listed(recent) : etlJobs[j].status = "in_progress"

C15_Witness ==
  /\ response.route = "status"
  /\ response.status = "idle"
  /\ \E j \in DOMAIN etlJobs : etlJobs[j].status = "in_progress"

\* C16: in every answer of GET /etl/status the four counts of jobCounts add
\* up to the number of jobs in recentJobs.
C16_CountsAddUp ==
  response.route = "status" =>
    response.jobCounts.completed + response.jobCounts.failed
      + response.jobCounts.inProgress + response.jobCounts.scheduled
    = Len(response.recentJobs)

C16_Witness ==
  /\ response.route = "status"
  /\ Len(response.recentJobs) = 5
  /\ response.jobCounts.failed > 0
  /\ response.jobCounts.completed > 0
  /\ response.jobCounts.scheduled > 0
  /\ Cardinality(DOMAIN pipe) = MaxRuns
  /\ Scheduled # {}

\* C17: the lastRun answered by GET /etl/status is null when no job of the
\* window is completed, and otherwise is the endTime of a completed job of
\* the window that no completed job of the window exceeds.
C17_LastRunLatest ==
  response.route = "status" =>
    LET done == {j \in Listed(response.recentJobs) :
                   etlJobs[j].status = "completed"}
    IN IF done = {}
       THEN response.lastRun = NoTime
       ELSE /\ \E j \in done : etlJobs[j].endTime = response.lastRun
            /\ \A j \in done : etlJobs[j].endTime <= response.lastRun

\* C18: the listing answered by GET /etl/jobs is ordered by startTime
\* descending, every job without a startTime comes after every job with
\* one, and without a limit the listing holds every job once.
C18_ListingOrdered ==
  response.route = "jobs" =>
    LET listing == response.jobs IN
      /\ Listed(listing) \subseteq DOMAIN etlJobs
      /\ Cardinality(Listed(listing)) = Len(listing)
      /\ response.limit = NoLimit => Listed(listing) = DOMAIN etlJobs
      /\ \A a, b \in 1 .. Len(listing) :
           a < b =>
             /\ (etlJobs[listing[a]].startTime # NoTime
                   /\ etlJobs[listing[b]].startTime # NoTime) =>
                  etlJobs[listing[a]].startTime >= etlJobs[listing[b]].startTime
             /\ etlJobs[listing[a]].startTime = NoTime =>
                  etlJobs[listing[b]].startTime = NoTime

\* C19: the answer of getValues holds, once each, exactly the values of the
\* indicator whose date is within the bounds given (a bound included, a
\* bound not given not restricting), in order of non-decreasing date.
C19_ValuesFilteredSorted ==
  response.route = "values" =>
    LET listing == response.values IN
      /\ Cardinality(Listed(listing)) = Len(listing)
      /\ Listed(listing) =
           {v \in DOMAIN values :
              /\ values[v].indicatorId = response.indicatorId
              /\ response.startDate # NoDate => response.startDate <= values[v].date
              /\ response.endDate # NoDate => values[v].date <= response.endDate}
      /\ \A a, b \in 1 .. Len(listing) :
           a < b => values[listing[a]].date <= values[listing[b]].date

C19_Witness ==
  /\ response.route = "values"
  /\ Len(response.values) = 2
  /\ response.values[1] > response.values[2]
  /\ response.startDate # NoDate
  /\ values[response.values[1]].date = response.startDate
  /\ \E v \in DOMAIN values \ Listed(response.values) :
       values[v].indicatorId = response.indicatorId

\* C20: every value refers to an indicator that is in the store.
C20_ValueHasIndicator ==
  \A v \in DOMAIN values : values[v].indicatorId \in DOMAIN indicators

\* C21: a call of updateEtlJob or updateIndicator with a known id changes, in
\* the record with that id, exactly the fields of the partial record, and
\* changes no other record and no counter; with an unknown id it is answered
\* not found and the store is unchanged.  Whenever a job becomes failed its
\* task, startTime, recordsProcessed and metadata stay, and whenever it
\* becomes completed its task, startTime and error stay.
C21_CallFrame ==
  response'.route \in {"updateEtlJob", "updateIndicator"} =>
    LET id == response'.id
        partial == response'.partial
        old == IF response'.route = "updateEtlJob" THEN etlJobs ELSE indicators
        new == IF response'.route = "updateEtlJob" THEN etlJobs' ELSE indicators'
    IN /\ response'.found = (id \in DOMAIN old)
       /\ DOMAIN new = DOMAIN old
       /\ \A k \in DOMAIN old \ {id} : new[k] = old[k]
       /\ id \in DOMAIN old =>
            /\ DOMAIN new[id] = DOMAIN old[id]
            /\ \A f \in DOMAIN old[id] :
                 new[id][f] = (IF f \in DOMAIN partial THEN partial[f] ELSE old[id][f])
       /\ id \notin DOMAIN old => UNCHANGED storeVars
       /\ response'.route = "updateEtlJob" => UNCHANGED indicators
       /\ response'.route = "updateIndicator" => UNCHANGED etlJobs
       /\ UNCHANGED <<indicatorCurrentId, etlJobCurrentId, values, valueCurrentId,
                      analysisResults, analysisResultCurrentId, issued>>

C21_StatusFrame ==
  \A j \in DOMAIN etlJobs :
    etlJobs'[j].status # etlJobs[j].status =>
      /\ etlJobs'[j].task = etlJobs[j].task
      /\ etlJobs'[j].startTime = etlJobs[j].startTime
      /\ etlJobs'[j].status = "failed" =>
           /\ etlJobs'[j].recordsProcessed = etlJobs[j].recordsProcessed
           /\ etlJobs'[j].metadata = etlJobs[j].metadata
      /\ etlJobs'[j].status = "completed" => etlJobs'[j].error = etlJobs[j].error

C21_PartialUpdate == [][C21_CallFrame /\ C21_StatusFrame]_vars

C21_Witness ==
  /\ response.route = "updateIndicator"
  /\ response.found
  /\ indicators[1].name = "Renamed"
  /\ etlJobs[3].recordsProcessed = 7
  /\ etlJobs[3].status = "failed"
  /\ \E j, k \in DOMAIN pipe :
       /\ Finished(j) /\ etlJobs[j].status = "failed"
       /\ Finished(k) /\ etlJobs[k].status = "completed"

\* C22: the array a listing returned keeps its length, and each of its
\* elements holds what it held when the listing was called, whatever was
\* created or updated in the store since; and the store's records are the
\* contents of the objects its Maps hold.
C22_Snapshot ==
  /\ Len(heap.held.array) = Len(heap.held.copy)
  /\ \A i \in DOMAIN heap.held.array :
       heap.objects[heap.held.array[i]] = heap.held.copy[i]
  /\ \A j \in DOMAIN etlJobs : Object("etlJobs", j) = etlJobs[j]
  /\ \A i \in DOMAIN indicators : Object("indicators", i) = indicators[i]
  /\ \A v \in DOMAIN values : Object("values", v) = values[v]
  /\ \A r \in DOMAIN analysisResults : Object("analysisResults", r) = analysisResults[r]

\* a listing of the five seeded jobs is held, and since then job 3 was
\* updated and a sixth job was created
C22_Witness ==
  /\ heap.held.op = "getEtlJobs"
  /\ Len(heap.held.array) = 5
  /\ Len(etlJobs) = 6
  /\ etlJobs[3].recordsProcessed = 7
  /\ \E i \in DOMAIN heap.held.copy :
       /\ heap.held.copy[i].task = etlJobs[3].task
       /\ heap.held.copy[i].recordsProcessed = NoCount
       /\ heap.held.array[i] # heap.etlJobs[3]

\* C23: in every state every job's fields agree with its status: scheduled
\* and in_progress jobs have no endTime, recordsProcessed or error; completed
\* jobs have an endTime and recordsProcessed and no error; failed jobs have an
\* endTime and an error and no recordsProcessed.
C23_FieldsAgree ==
  \A j \in DOMAIN etlJobs :
    LET job == etlJobs[j] IN
      /\ job.status \in {"scheduled", "in_progress", "completed", "failed"}
      /\ job.status \in {"scheduled", "in_progress"} =>
           job.endTime = NoTime /\ job.recordsProcessed = NoCount /\ job.error = NoError
      /\ job.status = "completed" =>
           job.endTime # NoTime /\ job.recordsProcessed # NoCount /\ job.error = NoError
      /\ job.status = "failed" =>
           job.endTime # NoTime /\ job.error # NoError /\ job.recordsProcessed = NoCount

\* a submitted job has completed, another has failed, a third job was
\* scheduled, and the seeded in_progress job is still there
C23_Witness ==
  /\ \E j, k \in DOMAIN pipe :
       /\ Finished(j) /\ etlJobs[j].status = "completed"
       /\ Finished(k) /\ etlJobs[k].status = "failed"
  /\ \E j \in Scheduled : etlJobs[j].status = "scheduled"
  /\ etlJobs[3].status = "in_progress"

\* C24: every call of runPythonScript that is over has settled exactly once:
\* with the script missing it was rejected as not found and no process was
\* spawned; otherwise with an exit code other than 0 it was rejected with the
\* code and the stderr text, whatever was on stdout; otherwise with stdout
\* that does not parse it was rejected with a parse error; otherwise it was
\* resolved with the parsed value.
C24_SettlesOnce ==
  response.route = "runPythonScript" =>
    LET c == response IN
      /\ Len(c.settles) <= 1
      /\ c.over => Len(c.settles) = 1
      /\ (c.over /\ ~c.scriptExists) =>
           /\ ~c.spawned
           /\ c.settles = <<[kind |-> "reject",
                             error |-> [text |-> "Python script not found"]]>>
      /\ (c.over /\ c.scriptExists /\ c.spawned /\ c.exit # 0) =>
           c.settles = <<[kind |-> "reject", error |-> ExitError(c.exit, c.stderr)]>>
      /\ (c.over /\ c.scriptExists /\ c.spawned /\ c.exit = 0 /\ ~c.stdout.json) =>
           c.settles = <<[kind |-> "reject",
                          error |-> [text |-> "Failed to parse Python script output"]]>>
      /\ (c.over /\ c.scriptExists /\ c.spawned /\ c.exit = 0 /\ c.stdout.json) =>
           c.settles = <<[kind |-> "resolve", value |-> c.stdout.value]>>
      /\ (c.p.pc = "resolved") = (c.settles # <<>> /\ c.settles[1].kind = "resolve")
      /\ (c.p.pc = "rejected") = (c.settles # <<>> /\ c.settles[1].kind = "reject")

\* C25: a completed job's recordsProcessed is the length of the data list of
\* the output its execution received, 0 when the output has no data field or
\* an empty list, and is never null.
C25_RecordsCounted ==
  /\ \A j \in DOMAIN pipe :
       etlJobs[j].status = "completed" =>
         /\ pipe[j].bridge = "ok"
         /\ pipe[j].result.dataLen = NoData => etlJobs[j].recordsProcessed = 0
         /\ pipe[j].result.dataLen = 0 => etlJobs[j].recordsProcessed = 0
         /\ pipe[j].result.dataLen > 0 =>
              etlJobs[j].recordsProcessed = pipe[j].result.dataLen
  /\ \A j \in DOMAIN etlJobs :
       etlJobs[j].status = "completed" => etlJobs[j].recordsProcessed # NoCount

\* one job completed on an output without data, another on one with two
\* records
C25_Witness ==
  \E j, k \in DOMAIN pipe :
    /\ etlJobs[j].status = "completed" /\ pipe[j].result.dataLen = NoData
    /\ etlJobs[j].recordsProcessed = 0
    /\ etlJobs[k].status = "completed" /\ pipe[k].result.dataLen = 2
    /\ etlJobs[k].recordsProcessed = 2

\* C26: whenever a submitted job is completed and the output it received
\* carried metadata, the store holds an indicator with the job's symbol.
C26_IngestedBeforeCompleted ==
  \A j \in DOMAIN pipe :
    (etlJobs[j].status = "completed" /\ pipe[j].result.meta # "none") =>
      IndicatorsOf(pipe[j].seriesId) # {}

\* C27: a step that answers POST /etl/schedule with success adds exactly one
\* job, with status scheduled and the parsed scheduledTime as startTime,
\* changes no other job and starts no execution; and no step ever changes a
\* job that was scheduled, by a request or by the seeding: it stays scheduled
\* with no endTime, recordsProcessed or error.
C27_ScheduleStep ==
  (response'.route = "schedule" /\ response'.code = 200) =>
    /\ DOMAIN etlJobs' \ DOMAIN etlJobs = {response'.job_id}
    /\ \A j \in DOMAIN etlJobs : etlJobs'[j] = etlJobs[j]
    /\ etlJobs'[response'.job_id].status = "scheduled"
    /\ etlJobs'[response'.job_id].startTime = DateParse("t6")
    /\ UNCHANGED <<pipe, indicators, unhandled>>

C27_StaysScheduled ==
  \A j \in Scheduled \cup {4, 5} :
    /\ etlJobs'[j] = etlJobs[j]
    /\ j \notin DOMAIN pipe'
    /\ etlJobs[j].status = "scheduled"
    /\ etlJobs[j].endTime = NoTime
    /\ etlJobs[j].recordsProcessed = NoCount
    /\ etlJobs[j].error = NoError

C27_ScheduledForever == [][C27_ScheduleStep /\ C27_StaysScheduled]_vars

\* a job was scheduled, a job submitted after it has run to its end, and
\* time has passed
C27_Witness ==
  /\ \E j \in Scheduled, k \in DOMAIN pipe :
       /\ k > j
       /\ Finished(k)
       /\ etlJobs[j].status = "scheduled"
       /\ etlJobs[j].startTime = 6
  /\ now > T0

\* C28: a job record changes only in a step of the execution of that job,
\* in which no other execution moves; and the record of every job whose
\* execution is over holds what its own execution wrote: its own task, and
\* either completed with its own output's count and metadata and no error,
\* or failed with its own error and its own request metadata.
C28_OwnStep ==
  \A k \in DOMAIN etlJobs :
    etlJobs'[k] # etlJobs[k] =>
      /\ k \in DOMAIN pipe
      /\ pipe'[k] # pipe[k]
      /\ \A i \in DOMAIN pipe \ {k} : pipe'[i] = pipe[i]
      /\ \A i \in DOMAIN etlJobs \ {k} : etlJobs'[i] = etlJobs[i]

C28_OwnFields ==
  \A j \in DOMAIN pipe :
    Finished(j) =>
      LET job == etlJobs[j]
          p == pipe[j]
      IN /\ job.task = TaskLabel(p.seriesId)
         /\ job.startTime <= job.endTime /\ job.endTime <= now
         /\ IF p.bridge = "ok" /\ ~p.result.isNull
            THEN /\ job.status = "completed"
                 /\ job.recordsProcessed =
                      (IF p.result.dataLen = NoData THEN 0 ELSE p.result.dataLen)
                 /\ job.metadata = [kind |-> "result", result |-> p.result]
                 /\ job.error = NoError
            ELSE /\ job.status = "failed"
                 /\ job.error = p.error
                 /\ job.recordsProcessed = NoCount
                 /\ job.metadata = [kind |-> "request", series_id |-> p.seriesId,
                                    start_date |-> p.startDate, end_date |-> p.endDate]

C28_NoInterference == [][C28_OwnStep /\ C28_OwnFields']_vars

\* two jobs ran at the same time, the one submitted later ended first, and
\* they ended differently
C28_Witness ==
  \E j, k \in DOMAIN pipe :
    /\ j < k
    /\ Finished(j) /\ Finished(k)
    /\ etlJobs[j].status = "completed" /\ etlJobs[k].status = "failed"
    /\ pipe[j].seriesId # pipe[k].seriesId
    /\ etlJobs[k].endTime < etlJobs[j].endTime

\* C29: whenever a job in the store is in_progress, the status answered by
\* GET /etl/status is active.
C29_InProgressMeansActive ==
  response.route = "status" =>
    ((\E j \in DOMAIN etlJobs : etlJobs[j].status = "in_progress") =>
       response.status = "active")

\* C30: with a limit N >= 0 the listing answered by getEtlJobs holds
\* min(N, total) jobs, the first ones of the listing without a limit; without
\* a limit it holds every job.
C30_LimitedListing ==
  response.route = "jobs" =>
    LET all == getEtlJobs(etlJobs, NoLimit)
        total == Cardinality(DOMAIN etlJobs)
        N == response.limit
        least == IF N < total THEN N ELSE total
    IN /\ Len(all) = total
       /\ IF N = NoLimit
          THEN response.jobs = all
          ELSE /\ Len(response.jobs) = least
               /\ response.jobs = SubSeq(all, 1, least)

====
